---------------------------- MODULE Spec2Model ----------------------------
(***************************************************************************)
(* Model of module_creator_core: the module scaffolder (ModuleCreator),    *)
(* the MCP file generator (McpModCreator) and the creation wizard.         *)
(* Strings are sequences of one-character strings, so that suffix tests,   *)
(* slicing, splitting and path construction are computed, not assumed.     *)
(***************************************************************************)
EXTENDS Integers, Sequences, FiniteSets, TLC

VARIABLES
    name,       \* SpecBase: the argument handed to _derive_module_base
    base,       \* SpecBase: the value it returned (Unset before the call)
    target_dir, \* the path of the module directory, relative to the working directory
    dir,        \* the module directory: file name -> content, for the files that exist
    params,     \* the ModuleCreationParams object handed to ModuleCreator
    tmpl,       \* the template files that exist under TEMPLATE_DIR
    last,       \* the last operation performed, how it ended, and the directory it found
    pc,         \* the wizard's position: the prompt or step it is about to perform
    prefilled,  \* the ModuleWizardArgs the wizard was started with
    env,        \* what the wizard finds: configured templates, hosting API, account
    wiz,        \* the wizard's local variables
    prompts,    \* the prompts issued so far, in order
    outcome,    \* how the wizard run ended ("running" until it has)
    remote      \* the remote repository created, if any

wizvars == <<pc, prefilled, env, wiz, prompts, outcome, remote>>
vars == <<name, base, target_dir, dir, params, tmpl, last, wizvars>>

\* Optional[T]: None is the empty tuple, a present value v is Some(v)
None == <<>>
Some(v) == <<v>>
\* no string: its one element is not a character
Unset == <<"unset">>

(***************************************************************************)
(* Bounds                                                                  *)
(***************************************************************************)
\* longest module name handed to _derive_module_base
MaxLen == 7

(***************************************************************************)
(* Strings                                                                 *)
(***************************************************************************)
Chars == {"a", "_", "m", "c", "p"}

\* every string of at most n characters
Strings(n) == UNION {[1..k -> Chars] : k \in 0..n}

\* the literal "_mcp"
McpSuffix == <<"_", "m", "c", "p">>

\* str.endswith(suffix)
endswith(s, suffix) ==
    /\ Len(s) >= Len(suffix)
    /\ SubSeq(s, Len(s) - Len(suffix) + 1, Len(s)) = suffix

\* str.split(sep) for a one-character separator: one more part than there
\* are separators, empty parts kept
RECURSIVE split(_, _)
split(s, sep) ==
    IF \A i \in 1..Len(s) : s[i] # sep
    THEN <<s>>
    ELSE LET i == CHOOSE k \in 1..Len(s) :
                      /\ s[k] = sep
                      /\ \A j \in 1..(k - 1) : s[j] # sep
         IN <<SubSeq(s, 1, i - 1)>> \o split(SubSeq(s, i + 1, Len(s)), sep)

\* mutant of derive_module_base: the prefix is kept ("vscode_kanbn" instead of "kanbn")
derive_module_base_keeps_prefix(module_name) ==
    IF endswith(module_name, McpSuffix)
    THEN SubSeq(module_name, 1, Len(module_name) - 4)
    ELSE module_name

\* _derive_module_base(module_name)
derive_module_base(module_name) ==
    IF endswith(module_name, McpSuffix)
    THEN LET b == SubSeq(module_name, 1, Len(module_name) - 4)
             parts == split(b, "_")
         IN IF Len(parts) > 1 THEN parts[Len(parts)] ELSE b
    ELSE module_name

\* str.capitalize() on the letters the model's names use
Upper(ch) ==
    CASE ch = "a" -> "A" [] ch = "c" -> "C" [] ch = "e" -> "E" [] ch = "f" -> "F"
      [] ch = "h" -> "H" [] ch = "k" -> "K" [] ch = "m" -> "M" [] ch = "p" -> "P"
      [] ch = "r" -> "R" [] ch = "s" -> "S" [] ch = "v" -> "V" [] OTHER -> ch

capitalize(word) ==
    IF word = <<>> THEN word ELSE <<Upper(word[1])>> \o SubSeq(word, 2, Len(word))

RECURSIVE join(_)
join(words) ==
    IF words = <<>> THEN <<>> ELSE words[1] \o join(Tail(words))

\* _to_class_name(name): snake_case to PascalCase
to_class_name(n) ==
    LET words == split(n, "_")
    IN join([i \in 1..Len(words) |-> capitalize(words[i])])

(***************************************************************************)
(* The module directory and the files written into it                      *)
(***************************************************************************)
InitYaml == <<"i", "n", "i", "t", ".", "y", "a", "m", "l">>
InitPy == <<"_", "_", "i", "n", "i", "t", "_", "_", ".", "p", "y">>
ReadmeMd == <<"R", "E", "A", "D", "M", "E", ".", "m", "d">>
RefreshPy == <<"r", "e", "f", "r", "e", "s", "h", ".", "p", "y">>
DotPy == <<".", "p", "y">>
CliPy == <<"_", "c", "l", "i", ".", "p", "y">>

\* target / f"{module_name}.py"
ServerPath(module_name) == module_name \o DotPy
\* target / f"{module_base}_cli.py"
CliPath(module_name) == derive_module_base(module_name) \o CliPy

\* the files of TEMPLATE_DIR
MCP_INIT_TEMPLATE == "mcp_init_template.txt"
MCP_REFRESH_TEMPLATE == "mcp_refresh_template.txt"
MCP_SERVER_TEMPLATE == "mcp_server_template.txt"
MCP_CLI_TEMPLATE == "mcp_cli_template.txt"
TemplateFiles ==
    {MCP_INIT_TEMPLATE, MCP_REFRESH_TEMPLATE, MCP_SERVER_TEMPLATE, MCP_CLI_TEMPLATE}

\* the module types of the registry, in the registry's order, each with its
\* plural directory name and its default workspace visibility
ModuleTypeNames == <<"core", "manager", "mcp">>
TypeSet == {ModuleTypeNames[i] : i \in 1..Len(ModuleTypeNames)}
get_module_type(t) ==
    CASE t = "core" -> [plural_name |-> "cores", shows_in_workspace |-> FALSE]
      [] t = "manager" -> [plural_name |-> "managers", shows_in_workspace |-> TRUE]
      [] t = "mcp" -> [plural_name |-> "mcps", shows_in_workspace |-> TRUE]
      [] OTHER -> [plural_name |-> "", shows_in_workspace |-> FALSE]

\* Path.exists()
Exists(d, f) == f \in DOMAIN d
\* Path.write_text(content): creates the file or replaces its content
WriteText(d, f, content) ==
    [x \in (DOMAIN d) \cup {f} |-> IF x = f THEN content ELSE d[x]]
Remove(d, f) == [x \in (DOMAIN d) \ {f} |-> d[x]]
NoFiles == [x \in {} |-> None]

\* the record kept of the last call: its name, its outcome ("ok", or the step
\* that raised), the directory as it was when the call began and the call's
\* argument as it was then
Call(op, status, before, arg) ==
    [op |-> op, status |-> status, before |-> before, arg |-> arg]
NoOp == Call("none", "none", NoFiles, None)

\* no wizard is running
WizardIdle ==
    /\ pc = "idle"
    /\ prefilled = None
    /\ env = None
    /\ wiz = None
    /\ prompts = <<>>
    /\ outcome = "none"
    /\ remote = None

\* content a user (or a cloned template) put there
CustomContent == [kind |-> "custom"]
\* f'"""{module_name} {module_type} module."""\n'
GenericInitContent(p) ==
    [kind |-> "package_doc", module_name |-> p.module_name, module_type |-> p.module_type]
\* f"# {module_name}\n\nType: {module_type}\n"
ReadmeContent(p) ==
    [kind |-> "readme", module_name |-> p.module_name, module_type |-> p.module_type]
\* template.read_text().format(**context): the text is determined by the
\* template and by the substitution context
Render(template, context) ==
    [kind |-> "rendered", template |-> template, context |-> context]

\* the module directory of a request, relative to the working directory:
\* ./<plural_name>/<module_name> (ModuleCreator._prepare_target_path)
TargetPath(p) == <<get_module_type(p.module_type).plural_name, p.module_name>>

\* the URL the hosting API builds for (owner, repository name)
Url(owner, repo_name) == <<"https://github.com", owner, repo_name>>

\* GithubApi.build_repo_url(owner, module_name) as _write_init_yaml sees it:
\* it returns the URL or it raises ValueError, which the caller turns into None
build_repo_url(owner, module_name, accepted) ==
    IF accepted THEN Some(Url(owner, module_name)) ELSE None

\* a manifest is an ordered list of <<key, value>> pairs (sort_keys=False)
YamlDoc(pairs) == [kind |-> "yaml", doc |-> pairs]
HasKey(doc, key) == \E i \in 1..Len(doc) : doc[i][1] = key
Get(doc, key) == doc[CHOOSE i \in 1..Len(doc) : doc[i][1] = key][2]
VERSION == <<"0", ".", "0", ".", "1">>

\* mutant of write_init_yaml: an existing manifest is left alone
write_init_yaml_skips_existing(d, path, p, accepted) ==
    IF Exists(d, InitYaml)
    THEN [dir |-> d, params |-> p]
    ELSE [dir |-> WriteText(d, InitYaml,
                     YamlDoc(<< <<"version", VERSION>>, <<"folder_path", path>>,
                                <<"type", p.module_type>>, <<"requirements", <<>> >> >>)),
          params |-> p]

\* mutant of write_init_yaml: the override is written whenever a value was supplied
write_init_yaml_always_shows(d, path, p, accepted) ==
    [dir |-> WriteText(d, InitYaml,
                YamlDoc(<< <<"version", VERSION>>, <<"folder_path", path>>,
                           <<"type", p.module_type>>, <<"requirements", <<>> >> >>
                        \o (IF p.shows_in_workspace # None
                            THEN << <<"shows_in_workspace", p.shows_in_workspace[1]>> >>
                            ELSE <<>>))),
     params |-> p]

\* ModuleCreator._write_init_yaml(target, params): the directory and the
\* params object after the call
write_init_yaml(d, path, p, accepted) ==
    LET built == IF p.repo_options # None /\ p.repo_options[1].owner # ""
                 THEN build_repo_url(p.repo_options[1].owner, p.module_name, accepted)
                 ELSE None
        p2 == IF built # None
              THEN [p EXCEPT !.repo_options = Some([p.repo_options[1] EXCEPT !.repo_url = built])]
              ELSE p
        repo_url == built
        data == << <<"version", VERSION>>,
                   <<"folder_path", path>>,
                   <<"type", p.module_type>>,
                   <<"requirements", <<>> >> >>
        default_visibility == get_module_type(p.module_type).shows_in_workspace
        data2 == IF p.shows_in_workspace # None
                    /\ p.shows_in_workspace[1] # default_visibility
                 THEN Append(data, <<"shows_in_workspace", p.shows_in_workspace[1]>>)
                 ELSE data
        data3 == IF repo_url # None
                 THEN Append(data2, <<"repo_url", repo_url[1]>>)
                 ELSE data2
    IN [dir |-> WriteText(d, InitYaml, YamlDoc(data3)), params |-> p2]

\* mutant of write_placeholder_files: the files are written whether or not they exist
write_placeholder_files_overwrites(target, p) ==
    WriteText(WriteText(target, InitPy, GenericInitContent(p)), ReadmeMd, ReadmeContent(p))

\* ModuleCreator._write_placeholder_files(target, params)
write_placeholder_files(target, p) ==
    LET d1 == IF ~Exists(target, InitPy)
              THEN WriteText(target, InitPy, GenericInitContent(p))
              ELSE target
    IN IF ~Exists(d1, ReadmeMd)
       THEN WriteText(d1, ReadmeMd, ReadmeContent(p))
       ELSE d1

\* McpModCreator._get_placeholders(module_name)
get_placeholders(module_name) ==
    LET module_base == derive_module_base(module_name)
    IN [module_name |-> module_name,
        mcp_key |-> module_name,
        module_base |-> module_base,
        module_class |-> to_class_name(module_base),
        short_name |-> SubSeq(module_base, 1, IF Len(module_base) < 4 THEN Len(module_base) ELSE 4),
        module_description |-> module_name \o <<" ", "C", "L", "I", " ", "c", "o", "m", "m", "a", "n", "d", "s">>]

\* The four steps of the generator work on st = [dir, status]: a step runs only
\* while status is "ok"; reading a template that does not exist raises, which
\* ends the call with the status naming the step.

\* mutant of write_init_py: the marker is written only if absent
write_init_py_skips(st, module_name, templates) ==
    IF st.status # "ok" THEN st
    ELSE IF Exists(st.dir, InitPy) THEN st
    ELSE IF MCP_INIT_TEMPLATE \notin templates THEN [st EXCEPT !.status = "failed_init"]
    ELSE [st EXCEPT !.dir = WriteText(st.dir, InitPy,
                                Render(MCP_INIT_TEMPLATE, [module_name |-> module_name]))]

\* McpModCreator._write_init_py(target, module_name)
write_init_py(st, module_name, templates) ==
    IF st.status # "ok" THEN st
    ELSE IF MCP_INIT_TEMPLATE \notin templates THEN [st EXCEPT !.status = "failed_init"]
    ELSE [st EXCEPT !.dir = WriteText(st.dir, InitPy,
                                Render(MCP_INIT_TEMPLATE, [module_name |-> module_name]))]

\* McpModCreator._write_refresh_py(target, module_name)
write_refresh_py(st, module_name, templates) ==
    IF st.status # "ok" THEN st
    ELSE IF Exists(st.dir, RefreshPy) THEN st
    ELSE IF MCP_REFRESH_TEMPLATE \notin templates THEN [st EXCEPT !.status = "failed_refresh"]
    ELSE [st EXCEPT !.dir = WriteText(st.dir, RefreshPy,
                                Render(MCP_REFRESH_TEMPLATE, get_placeholders(module_name)))]

\* McpModCreator._write_mcp_server_py(target, module_name)
write_mcp_server_py(st, module_name, templates) ==
    IF st.status # "ok" THEN st
    ELSE IF Exists(st.dir, ServerPath(module_name)) THEN st
    ELSE IF MCP_SERVER_TEMPLATE \notin templates THEN [st EXCEPT !.status = "failed_server"]
    ELSE [st EXCEPT !.dir = WriteText(st.dir, ServerPath(module_name),
                                Render(MCP_SERVER_TEMPLATE, [module_name |-> module_name]))]

\* mutant of write_cli_py: a missing CLI template is read anyway and the call fails
write_cli_py_requires_template(st, module_name, templates) ==
    IF st.status # "ok" THEN st
    ELSE IF Exists(st.dir, CliPath(module_name)) THEN st
    ELSE IF MCP_CLI_TEMPLATE \notin templates THEN [st EXCEPT !.status = "failed_cli"]
    ELSE [st EXCEPT !.dir = WriteText(st.dir, CliPath(module_name),
                                Render(MCP_CLI_TEMPLATE, get_placeholders(module_name)))]

\* McpModCreator._write_cli_py(target, module_name)
write_cli_py(st, module_name, templates) ==
    IF st.status # "ok" THEN st
    ELSE IF Exists(st.dir, CliPath(module_name)) THEN st
    ELSE IF MCP_CLI_TEMPLATE \notin templates THEN st
    ELSE [st EXCEPT !.dir = WriteText(st.dir, CliPath(module_name),
                                Render(MCP_CLI_TEMPLATE, get_placeholders(module_name)))]

\* McpModCreator.create_mcp_files(target, module_name)
create_mcp_files(target, module_name, templates) ==
    LET s0 == [dir |-> target, status |-> "ok"]
        s1 == write_init_py(s0, module_name, templates)
        s2 == write_refresh_py(s1, module_name, templates)
        s3 == write_mcp_server_py(s2, module_name, templates)
    IN write_cli_py(s3, module_name, templates)

(***************************************************************************)
(* SpecFiles: the placeholder writer and the MCP generator, called in any  *)
(* order on one module directory that a user may edit between the calls    *)
(***************************************************************************)
\* module names in canonical snake_case form
ModuleNames ==
    { <<"r", "e", "f", "r", "e", "s", "h">>,
      <<"a", "_", "m", "c", "p">>,
      <<"v", "_", "k", "_", "m", "c", "p">> }

NoRepoParams(n, t) ==
    [module_name |-> n, module_type |-> t, repo_options |-> None,
     template_url |-> None, shows_in_workspace |-> None]

\* the files the two writers may touch for a module name
TargetFiles(n) == {InitPy, ReadmeMd, RefreshPy, ServerPath(n), CliPath(n)}

InitFiles ==
    /\ name = <<>>
    /\ base = Unset
    /\ params \in {NoRepoParams(n, t) : n \in ModuleNames, t \in TypeSet}
    /\ target_dir = TargetPath(params)
    /\ dir = NoFiles
    /\ tmpl \in SUBSET TemplateFiles
    /\ last = NoOp
    /\ WizardIdle

\* the user writes a file of the directory by hand
UserWrite ==
    \E f \in TargetFiles(params.module_name) :
        /\ dir' = WriteText(dir, f, CustomContent)
        /\ last' = Call("user_write", "ok", NoFiles, None)
        /\ UNCHANGED <<name, base, target_dir, params, tmpl, wizvars>>

\* the user deletes a file of the directory
UserDelete ==
    \E f \in DOMAIN dir :
        /\ dir' = Remove(dir, f)
        /\ last' = Call("user_delete", "ok", NoFiles, None)
        /\ UNCHANGED <<name, base, target_dir, params, tmpl, wizvars>>

WritePlaceholderFiles ==
    /\ dir' = write_placeholder_files(dir, params)
    /\ last' = Call("write_placeholder_files", "ok", dir, None)
    /\ UNCHANGED <<name, base, target_dir, params, tmpl, wizvars>>

CreateMcpFiles ==
    LET r == create_mcp_files(dir, params.module_name, tmpl)
    IN /\ dir' = r.dir
       /\ last' = Call("create_mcp_files", r.status, dir, None)
       /\ UNCHANGED <<name, base, target_dir, params, tmpl, wizvars>>

NextFiles == UserWrite \/ UserDelete \/ WritePlaceholderFiles \/ CreateMcpFiles

SpecFiles == InitFiles /\ [][NextFiles]_vars

\* the content of f in d, None when f does not exist
ContentOf(d, f) == IF Exists(d, f) THEN Some(d[f]) ELSE None
\* d2 differs from d1 at most at the files of fs
SameExcept(d1, d2, fs) ==
    \A f \in ((DOMAIN d1) \cup (DOMAIN d2)) \ fs : ContentOf(d1, f) = ContentOf(d2, f)

\* C4: after the placeholder writer, a package marker or README that existed
\* before the call has the content it had, and one that was absent exists with
\* the writer's default content.
PlaceholderNeverOverwrites ==
    last.op = "write_placeholder_files" =>
        /\ IF Exists(last.before, InitPy)
           THEN ContentOf(dir, InitPy) = ContentOf(last.before, InitPy)
           ELSE ContentOf(dir, InitPy) = Some(GenericInitContent(params))
        /\ IF Exists(last.before, ReadmeMd)
           THEN ContentOf(dir, ReadmeMd) = ContentOf(last.before, ReadmeMd)
           ELSE ContentOf(dir, ReadmeMd) = Some(ReadmeContent(params))

\* the writer ran on a directory holding a hand-written marker and no README:
\* the marker is kept, the README is created
PlaceholderWitness ==
    /\ last.op = "write_placeholder_files"
    /\ ContentOf(last.before, InitPy) = Some(CustomContent)
    /\ ~Exists(last.before, ReadmeMd)
    /\ Exists(dir, ReadmeMd)

\* the three skip-if-exists outputs of the MCP generator
SkipIfExistsFiles(n) == {RefreshPy, ServerPath(n), CliPath(n)}

\* C5: in every call of the MCP generator that gets to render the marker
\* template, the package marker afterwards holds the rendering of that template
\* whatever it held before, while refresh.py, <module_name>.py and <base>_cli.py
\* keep their content if they existed before the call.
McpPerFilePolicy ==
    (last.op = "create_mcp_files" /\ last.status # "failed_init") =>
        /\ ContentOf(dir, InitPy) =
               Some(Render(MCP_INIT_TEMPLATE, [module_name |-> params.module_name]))
        /\ \A f \in SkipIfExistsFiles(params.module_name) :
               Exists(last.before, f) => ContentOf(dir, f) = ContentOf(last.before, f)

\* the generator ran on a directory holding the generic marker and a
\* hand-written refresh.py: the marker was replaced, refresh.py was kept and
\* the absent entry point was written
McpPerFilePolicyWitness ==
    /\ last.op = "create_mcp_files"
    /\ last.status = "ok"
    /\ ContentOf(last.before, InitPy) = Some(GenericInitContent(params))
    /\ ContentOf(last.before, RefreshPy) = Some(CustomContent)
    /\ ContentOf(dir, RefreshPy) = Some(CustomContent)
    /\ ~Exists(last.before, ServerPath(params.module_name))
    /\ Exists(dir, ServerPath(params.module_name))

\* C9 as stated: whenever a required template (steps 1-3) is missing, the call
\* of the generator fails.
MissingRequiredTemplateAlwaysFails ==
    (last.op = "create_mcp_files"
        /\ {MCP_INIT_TEMPLATE, MCP_REFRESH_TEMPLATE, MCP_SERVER_TEMPLATE} \ tmpl # {})
    => last.status # "ok"

\* steps 2 and 3 read their template only when their target is absent at that
\* point of the call (step 3's target may have been created by step 2)
ReadsRefreshTemplate(before) == ~Exists(before, RefreshPy)
ReadsServerTemplate(before, n) ==
    ~Exists(before, ServerPath(n)) /\ ServerPath(n) # RefreshPy

\* C9 amended: a missing CLI template never fails the call and no CLI file is
\* created; the call fails exactly at the first of steps 1-3 that has to read a
\* missing template (step 1 always reads, steps 2 and 3 only when their target
\* is absent), the later steps write nothing and what the earlier steps wrote
\* stays; a call that does not fail leaves marker, refresh.py and
\* <module_name>.py in place.
McpTemplateFailures ==
    last.op = "create_mcp_files" =>
        LET n == params.module_name
            b == last.before
        IN IF MCP_INIT_TEMPLATE \notin tmpl
           THEN /\ last.status = "failed_init"
                /\ dir = b
           ELSE IF ReadsRefreshTemplate(b) /\ MCP_REFRESH_TEMPLATE \notin tmpl
           THEN /\ last.status = "failed_refresh"
                /\ ContentOf(dir, InitPy) =
                       Some(Render(MCP_INIT_TEMPLATE, [module_name |-> n]))
                /\ SameExcept(b, dir, {InitPy})
           ELSE IF ReadsServerTemplate(b, n) /\ MCP_SERVER_TEMPLATE \notin tmpl
           THEN /\ last.status = "failed_server"
                /\ ContentOf(dir, InitPy) =
                       Some(Render(MCP_INIT_TEMPLATE, [module_name |-> n]))
                /\ Exists(dir, RefreshPy)
                /\ SameExcept(b, dir, {InitPy, RefreshPy})
           ELSE /\ last.status = "ok"
                /\ Exists(dir, InitPy) /\ Exists(dir, RefreshPy) /\ Exists(dir, ServerPath(n))
                /\ MCP_CLI_TEMPLATE \notin tmpl =>
                       ContentOf(dir, CliPath(n)) = ContentOf(b, CliPath(n))

\* the CLI template is missing and there was no CLI file: the call succeeded
\* on an empty directory, wrote the three other files and no CLI file
CliSkippedWitness ==
    /\ last.op = "create_mcp_files"
    /\ last.status = "ok"
    /\ last.before = NoFiles
    /\ MCP_CLI_TEMPLATE \notin tmpl
    /\ DOMAIN dir = {InitPy, RefreshPy, ServerPath(params.module_name)}

\* the server template is missing and its target absent: the call failed at
\* step 3 after writing the marker and refresh.py
ServerTemplateFailureWitness ==
    /\ last.op = "create_mcp_files"
    /\ last.status = "failed_server"
    /\ last.before = NoFiles
    /\ DOMAIN dir = {InitPy, RefreshPy}

\* the four outputs of the MCP generator for a module name
GeneratedFiles(n) == {InitPy, RefreshPy, ServerPath(n), CliPath(n)}

\* C12 as stated: a call of the generator on a directory holding none of the
\* generated files, with the required templates in place, writes its outputs at
\* pairwise distinct paths, each holding the rendering of its own template
\* (the CLI file when the CLI template exists).
FreshCallRendersEachTemplate ==
    (/\ last.op = "create_mcp_files"
     /\ {MCP_INIT_TEMPLATE, MCP_REFRESH_TEMPLATE, MCP_SERVER_TEMPLATE} \subseteq tmpl
     /\ (DOMAIN last.before) \cap GeneratedFiles(params.module_name) = {})
    => LET n == params.module_name
       IN /\ Cardinality(GeneratedFiles(n)) = 4
          /\ ContentOf(dir, InitPy) = Some(Render(MCP_INIT_TEMPLATE, [module_name |-> n]))
          /\ ContentOf(dir, RefreshPy) =
                 Some(Render(MCP_REFRESH_TEMPLATE, get_placeholders(n)))
          /\ ContentOf(dir, ServerPath(n)) =
                 Some(Render(MCP_SERVER_TEMPLATE, [module_name |-> n]))
          /\ MCP_CLI_TEMPLATE \in tmpl =>
                 ContentOf(dir, CliPath(n)) =
                     Some(Render(MCP_CLI_TEMPLATE, get_placeholders(n)))

(***************************************************************************)
(* SpecManifest: the manifest writer called with any request on a module   *)
(* directory that may already hold a manifest                              *)
(***************************************************************************)
Owners == {"", "acme-org"}
\* a URL some earlier code left on the options object
StaleUrl == Url("old-org", <<"o", "l", "d">>)

RepoOptions ==
    {[owner |-> o, visibility |-> "private", repo_url |-> u] :
        o \in Owners, u \in {None, Some(StaleUrl)}}

Requests ==
    {[module_name |-> n, module_type |-> t, repo_options |-> r,
      template_url |-> None, shows_in_workspace |-> s] :
        n \in ModuleNames, t \in TypeSet,
        r \in {None} \cup {Some(o) : o \in RepoOptions},
        s \in {None, Some(TRUE), Some(FALSE)}}

\* a manifest left by an earlier creation of another type
StaleManifest(t) ==
    YamlDoc(<< <<"version", <<"0", ".", "0", ".", "0">> >>,
               <<"folder_path", <<"old", <<"o", "l", "d">> >> >>,
               <<"type", t>>,
               <<"requirements", << <<"x">> >> >> >>)

InitManifest ==
    /\ name = <<>>
    /\ base = Unset
    /\ params \in Requests
    /\ target_dir = TargetPath(params)
    /\ dir = NoFiles
    /\ tmpl = {}
    /\ last = NoOp
    /\ WizardIdle

\* a stale manifest is put at the target path
SeedManifest ==
    \E t \in TypeSet :
        /\ dir' = WriteText(dir, InitYaml, StaleManifest(t))
        /\ last' = Call("seed_manifest", "ok", NoFiles, None)
        /\ UNCHANGED <<name, base, target_dir, params, tmpl, wizvars>>

\* the caller builds another request for the same directory
NewRequest ==
    \E p \in Requests :
        /\ p.module_name = params.module_name
        /\ params' = p
        /\ last' = Call("new_request", "ok", NoFiles, None)
        /\ UNCHANGED <<name, base, target_dir, dir, tmpl, wizvars>>

WriteInitYaml ==
    \E accepted \in BOOLEAN :
        LET r == write_init_yaml(dir, target_dir, params, accepted)
        IN /\ dir' = r.dir
           /\ params' = r.params
           /\ last' = Call("write_init_yaml", "ok", dir, params)
           /\ UNCHANGED <<name, base, target_dir, tmpl, wizvars>>

NextManifest == SeedManifest \/ NewRequest \/ WriteInitYaml

SpecManifest == InitManifest /\ [][NextManifest]_vars

\* the manifest of the directory
Manifest == dir[InitYaml].doc
Keys(doc) == {doc[i][1] : i \in 1..Len(doc)}

\* C2 as stated: after the manifest writer ran with a request whose repository
\* options carry a non-empty owner, the manifest's repo_url and the request's
\* repo_url are both the URL built from (owner, module_name).
ManifestAndRequestUrlAgree ==
    (/\ last.op = "write_init_yaml"
     /\ last.arg.repo_options # None
     /\ last.arg.repo_options[1].owner # "")
    => LET url == Url(last.arg.repo_options[1].owner, last.arg.module_name)
       IN /\ HasKey(Manifest, "repo_url")
          /\ Get(Manifest, "repo_url") = url
          /\ params.repo_options[1].repo_url = Some(url)

\* C6: after the manifest writer the manifest holds version, folder_path, type
\* and an empty requirements list, and its type is the request's module_type,
\* whatever manifest was at the path before.
ManifestAlwaysOverwritten ==
    last.op = "write_init_yaml" =>
        /\ Exists(dir, InitYaml)
        /\ {"version", "folder_path", "type", "requirements"} \subseteq Keys(Manifest)
        /\ Get(Manifest, "type") = last.arg.module_type
        /\ Get(Manifest, "requirements") = <<>>
        /\ Get(Manifest, "version") = VERSION
        /\ Get(Manifest, "folder_path") = target_dir

\* the writer ran over a stale manifest of another type
ManifestOverwrittenWitness ==
    /\ last.op = "write_init_yaml"
    /\ Exists(last.before, InitYaml)
    /\ last.before[InitYaml] = StaleManifest("core")
    /\ last.arg.module_type = "mcp"
    /\ Get(Manifest, "type") = "mcp"

\* C7: the manifest holds shows_in_workspace exactly when the request supplied
\* a value that differs from the default of its module type, and then it holds
\* that value.
ShowsInWorkspaceIffOverride ==
    last.op = "write_init_yaml" =>
        LET supplied == last.arg.shows_in_workspace
            default == get_module_type(last.arg.module_type).shows_in_workspace
        IN /\ HasKey(Manifest, "shows_in_workspace")
                <=> (supplied # None /\ supplied[1] # default)
           /\ HasKey(Manifest, "shows_in_workspace")
                => Get(Manifest, "shows_in_workspace") = supplied[1]

\* a request that forces FALSE for a type shown by default got the key written
ShowsWrittenWitness ==
    /\ last.op = "write_init_yaml"
    /\ last.arg.module_type = "mcp"
    /\ last.arg.shows_in_workspace = Some(FALSE)
    /\ HasKey(Manifest, "shows_in_workspace")
    /\ Get(Manifest, "shows_in_workspace") = FALSE

\* a request that supplies the default of its type got no key written
ShowsOmittedWitness ==
    /\ last.op = "write_init_yaml"
    /\ last.arg.module_type = "core"
    /\ last.arg.shows_in_workspace = Some(FALSE)
    /\ ~HasKey(Manifest, "shows_in_workspace")

(***************************************************************************)
(* ModuleCreator.create                                                    *)
(***************************************************************************)
\* the file tree a template repository is cloned with
TemplateTree == [x \in {InitPy, ReadmeMd} |-> CustomContent]
\* clone_template(api, url, target): the template's files are put into target
clone_template(d) ==
    [x \in (DOMAIN d) \cup (DOMAIN TemplateTree) |->
        IF x \in DOMAIN TemplateTree THEN TemplateTree[x] ELSE d[x]]

\* the result of create: the directory made (None if none), its files, the
\* params object, the remote repository created (None if none) and "ok" or
\* the step that raised ADHDError
Created(path, d, p, rem, status) ==
    [target_dir |-> path, dir |-> d, params |-> p, remote |-> rem, status |-> status]

\* ModuleCreator.create(params). gh tells whether GithubApi() can be built;
\* cloned, accepted and pushed are the outcomes of clone_template,
\* build_repo_url and create_remote_repo.
create(d, p, gh, cloned, accepted, pushed) ==
    IF get_module_type(p.module_type).plural_name = ""
    THEN Created(None, d, p, None, "failed_type")
    ELSE IF gh = "no_cli"
    THEN Created(Some(TargetPath(p)), d, p, None, "failed_api")
    ELSE IF p.template_url # None /\ ~cloned
    THEN Created(Some(TargetPath(p)), d, p, None, "failed_clone")
    ELSE LET d1 == IF p.template_url # None THEN clone_template(d) ELSE d
             r == write_init_yaml(d1, TargetPath(p), p, accepted)
             d3 == write_placeholder_files(r.dir, r.params)
         IN IF r.params.repo_options # None /\ pushed
            THEN Created(Some(TargetPath(p)), d3, r.params,
                         Some([repo_name |-> p.module_name,
                               options |-> r.params.repo_options[1]]), "ok")
            ELSE Created(Some(TargetPath(p)), d3, r.params, None, "ok")

(***************************************************************************)
(* The creation wizard                                                     *)
(***************************************************************************)
\* most templates the configuration lists
MaxTemplates == 2

\* characters of [0-9a-zA-Z] among those the model's names use
AlnumChars ==
    {"a", "c", "e", "f", "h", "k", "m", "p", "r", "s", "v", "A", "M", "C", "P"}
Lower(ch) ==
    CASE ch = "A" -> "a" [] ch = "M" -> "m" [] ch = "C" -> "c" [] ch = "P" -> "p"
      [] OTHER -> ch

RECURSIVE NonEmptyParts(_)
NonEmptyParts(parts) ==
    IF parts = <<>> THEN <<>>
    ELSE IF parts[1] = <<>> THEN NonEmptyParts(Tail(parts))
    ELSE <<parts[1]>> \o NonEmptyParts(Tail(parts))

RECURSIVE JoinWith(_, _)
JoinWith(parts, sep) ==
    IF parts = <<>> THEN <<>>
    ELSE IF Len(parts) = 1 THEN parts[1]
    ELSE parts[1] \o <<sep>> \o JoinWith(Tail(parts), sep)

\* to_snake_case(text): every run of characters outside [0-9a-zA-Z] becomes one
\* underscore, leading and trailing underscores go, the rest is lowercased;
\* "module" when nothing is left
to_snake_case(text) ==
    LET mapped == [i \in 1..Len(text) |->
                      IF text[i] \in AlnumChars THEN Lower(text[i]) ELSE "_"]
        result == JoinWith(NonEmptyParts(split(mapped, "_")), "_")
    IN IF result = <<>> THEN <<"m", "o", "d", "u", "l", "e">> ELSE result

\* what the user may type at the name prompt
RawNames ==
    { <<"A", " ", "M", "c", "p">>,
      <<"r", "e", "f", "r", "e", "s", "h">>,
      <<"!", "!">> }

\* types with "core" moved to the end
ReorderTypes(types) ==
    IF \E i \in 1..Len(types) : types[i] = "core"
    THEN SelectSeq(types, LAMBDA t : t # "core") \o <<"core">>
    ELSE types
WizardTypes == ReorderTypes(ModuleTypeNames)
InSeq(x, seq) == \E i \in 1..Len(seq) : seq[i] = x

\* template names and URLs are <<prefix, rest>>
TemplateInfo(i) == [name |-> <<"tmpl-", i>>, url |-> <<"https://", i>>]
\* list_templates(mod_tmpls.to_dict()) for a configuration listing n templates
list_templates(n) == [i \in 1..n |-> TemplateInfo(i)]
\* str.startswith(("http://", "https://", "git@"))
LooksLikeUrl(s) == s[1] \in {"http://", "https://", "git@"}

\* the accounts the hosting API reports
OrgLogins == <<"acme-org", "alice", "">>
\* the values of owner_lookup, in insertion order: the personal account first,
\* then every organisation with a login that is not yet a value
RECURSIVE AddOrgs(_, _)
AddOrgs(owners, orgs) ==
    IF orgs = <<>> THEN owners
    ELSE IF orgs[1] # "" /\ ~InSeq(orgs[1], owners)
         THEN AddOrgs(Append(owners, orgs[1]), Tail(orgs))
         ELSE AddOrgs(owners, Tail(orgs))
owner_lookup(user_login, orgs) ==
    AddOrgs(IF user_login # "" THEN <<user_login>> ELSE <<>>, orgs)

PrefilledArgs ==
    [name : {None, Some(<<"A", " ", "M", "c", "p">>)},
     module_type : {None, Some("mcp"), Some("core"), Some("bogus")},
     template : {None, Some(<<"tmpl-", 1>>), Some(<<"git@", 0>>), Some(<<"nope", 0>>)},
     create_repo : {None, Some(TRUE), Some(FALSE)},
     owner : {None, Some("acme-org"), Some("ghost")},
     visibility : {None, Some("public"), Some("secret")}]

Environments ==
    [templates : {None} \cup {Some(n) : n \in 0..MaxTemplates},
     gh : {"ok", "no_cli", "no_auth", "no_orgs"},
     login : {"", "alice"}]

WizardLocals ==
    [module_name |-> <<>>, module_type |-> "", template_url |-> None,
     repo_options |-> None, owner |-> "", api_failure |-> "none",
     cancelled_at |-> "", create_calls |-> 0, confirm |-> ""]

InitWizard ==
    /\ name = <<>>
    /\ base = Unset
    /\ target_dir = None
    /\ dir = NoFiles
    /\ params = None
    /\ tmpl = TemplateFiles
    /\ last = NoOp
    /\ pc = "start"
    /\ prefilled \in PrefilledArgs
    /\ env \in Environments
    /\ wiz = WizardLocals
    /\ prompts = <<>>
    /\ outcome = "running"
    /\ remote = None

filevars == <<name, base, target_dir, dir, params, tmpl, last>>

\* mutant of on_keyboard_interrupt: an interrupt at a repository prompt is
\* swallowed and the wizard goes on without a repository
on_keyboard_interrupt_swallowed(prompt) ==
    IF prompt \in {"create_repo", "owner", "visibility"}
    THEN [pc |-> "create", outcome |-> "running"]
    ELSE [pc |-> "done", outcome |-> "cancelled"]

\* the except KeyboardInterrupt clauses: log and return
on_keyboard_interrupt(prompt) == [pc |-> "done", outcome |-> "cancelled"]

\* the user interrupts the prompt that was just issued
Interrupt(prompt) ==
    LET h == on_keyboard_interrupt(prompt)
    IN /\ prompts' = Append(prompts, prompt)
       /\ wiz' = [wiz EXCEPT !.cancelled_at = prompt]
       /\ pc' = h.pc
       /\ outcome' = h.outcome
       /\ UNCHANGED <<prefilled, env, remote, filevars>>

\* the wizard returns early
Return(how) ==
    /\ pc' = "done"
    /\ outcome' = how
    /\ UNCHANGED <<prefilled, env, wiz, prompts, remote, filevars>>

\* the wizard goes on to position next with its locals changed to w
Goto(next, w) ==
    /\ pc' = next
    /\ wiz' = w
    /\ UNCHANGED <<prefilled, env, prompts, outcome, remote, filevars>>

\* a prompt was answered: the wizard goes on
Answered(prompt, next, w) ==
    /\ prompts' = Append(prompts, prompt)
    /\ pc' = next
    /\ wiz' = w
    /\ UNCHANGED <<prefilled, env, outcome, remote, filevars>>

\* reading the configuration and the type registry
WizardStart ==
    /\ pc = "start"
    /\ IF env.templates = None THEN Return("no_templates_config")
       ELSE IF Len(ModuleTypeNames) = 0 THEN Return("no_types")
       ELSE Goto("name", wiz)

\* stage 1: the module name
AskName ==
    /\ pc = "name"
    /\ IF prefilled.name # None
       THEN Goto("type", [wiz EXCEPT !.module_name = to_snake_case(prefilled.name[1])])
       ELSE \/ \E raw_name \in RawNames :
                  Answered("name", "type",
                           [wiz EXCEPT !.module_name = to_snake_case(raw_name)])
            \/ Interrupt("name")

\* mutant of AfterType: a core goes on without the confirmation
AfterType_skips_confirmation(t) == "template"

AfterType(t) == IF t = "core" THEN "confirm" ELSE "template"

\* stage 1: the module type
AskType ==
    /\ pc = "type"
    /\ IF prefilled.module_type # None
       THEN IF ~InSeq(prefilled.module_type[1], WizardTypes)
            THEN Return("invalid_type")
            ELSE Goto(AfterType(prefilled.module_type[1]),
                      [wiz EXCEPT !.module_type = prefilled.module_type[1]])
       ELSE \/ \E i \in 1..Len(WizardTypes) :
                  Answered("type", AfterType(WizardTypes[i]),
                           [wiz EXCEPT !.module_type = WizardTypes[i]])
            \/ Interrupt("type")

\* stage 1: the confirmation asked for a core
ConfirmCore ==
    /\ pc = "confirm"
    /\ \/ \E confirm \in {"Yes, I understand", "No, go back"} :
            IF confirm # "Yes, I understand"
            THEN /\ prompts' = Append(prompts, "confirm")
                 /\ pc' = "done"
                 /\ outcome' = "core_declined"
                 /\ wiz' = [wiz EXCEPT !.confirm = confirm]
                 /\ UNCHANGED <<prefilled, env, remote, filevars>>
            ELSE Answered("confirm", "template", [wiz EXCEPT !.confirm = confirm])
       \/ Interrupt("confirm")

\* stage 2: the template
PickTemplate ==
    /\ pc = "template"
    /\ LET templates == list_templates(env.templates[1])
       IN IF prefilled.template # None
          THEN IF \E i \in 1..Len(templates) :
                      \/ templates[i].name = prefilled.template[1]
                      \/ templates[i].url = prefilled.template[1]
               THEN LET i == CHOOSE k \in 1..Len(templates) :
                                 /\ \/ templates[k].name = prefilled.template[1]
                                    \/ templates[k].url = prefilled.template[1]
                                 /\ \A j \in 1..(k - 1) :
                                        /\ templates[j].name # prefilled.template[1]
                                        /\ templates[j].url # prefilled.template[1]
                    IN Goto("repo_choice",
                            [wiz EXCEPT !.template_url = Some(templates[i].url)])
               ELSE IF LooksLikeUrl(prefilled.template[1])
               THEN Goto("repo_choice", [wiz EXCEPT !.template_url = prefilled.template])
               ELSE Goto("repo_choice", wiz)
          ELSE IF Len(templates) = 0
          THEN Goto("repo_choice", wiz)
          ELSE IF Len(templates) = 1
          THEN Goto("repo_choice", [wiz EXCEPT !.template_url = Some(templates[1].url)])
          ELSE \/ \E selected \in 0..Len(templates) :
                     Answered("template", "repo_choice",
                              IF selected = 0 THEN wiz
                              ELSE [wiz EXCEPT !.template_url = Some(templates[selected].url)])
               \/ Interrupt("template")

\* stage 3, _prompt_repo_creation: whether to create a repository
AskCreateRepo ==
    /\ pc = "repo_choice"
    /\ IF prefilled.create_repo = Some(FALSE)
       THEN Goto("create", wiz)
       ELSE IF prefilled.create_repo = None
       THEN \/ \E create_choice \in {"Yes", "No"} :
                  Answered("create_repo",
                           IF create_choice # "Yes" THEN "create" ELSE "repo_api", wiz)
            \/ Interrupt("create_repo")
       ELSE Goto("repo_api", wiz)

\* stage 3, _prompt_repo_creation: the hosting API is asked for the account
\* and its organisations, and a pre-filled owner is validated
ContactApi ==
    /\ pc = "repo_api"
    /\ IF env.gh \in {"no_cli", "no_auth"}
       THEN Goto("create", [wiz EXCEPT !.api_failure = "init"])
       ELSE LET orgs == IF env.gh = "no_orgs" THEN <<>> ELSE OrgLogins
                owners == owner_lookup(env.login, orgs)
                w == IF env.gh = "no_orgs" THEN [wiz EXCEPT !.api_failure = "orgs"] ELSE wiz
            IN IF Len(owners) = 0
               THEN Goto("create", w)
               ELSE IF prefilled.owner # None
               THEN IF InSeq(prefilled.owner[1], owners)
                    THEN Goto("visibility", [w EXCEPT !.owner = prefilled.owner[1]])
                    ELSE Goto("create", w)
               ELSE Goto("owner", w)

\* the owners offered at the owner prompt
OfferedOwners ==
    owner_lookup(env.login, IF env.gh = "no_orgs" THEN <<>> ELSE OrgLogins)

\* stage 3, _prompt_repo_creation: the owner
AskOwner ==
    /\ pc = "owner"
    /\ \/ \E i \in 1..Len(OfferedOwners) :
            Answered("owner", "visibility", [wiz EXCEPT !.owner = OfferedOwners[i]])
       \/ Interrupt("owner")

RepoCreationOptions(owner, visibility) ==
    [owner |-> owner, visibility |-> visibility, repo_url |-> None]

\* stage 3, _prompt_repo_creation: the visibility
AskVisibility ==
    /\ pc = "visibility"
    /\ IF prefilled.visibility # None
       THEN IF prefilled.visibility[1] \notin {"public", "private"}
            THEN Goto("create", wiz)
            ELSE Goto("create",
                      [wiz EXCEPT !.repo_options =
                          Some(RepoCreationOptions(wiz.owner, prefilled.visibility[1]))])
       ELSE \/ \E visibility_choice \in {"Public", "Private"} :
                  Answered("visibility", "create",
                           [wiz EXCEPT !.repo_options =
                               Some(RepoCreationOptions(wiz.owner,
                                   IF visibility_choice = "Private"
                                   THEN "private" ELSE "public"))])
            \/ Interrupt("visibility")

\* stage 4: ModuleCreator().create(params), an ADHDError logged
Create ==
    /\ pc = "create"
    /\ \E cloned \in BOOLEAN, accepted \in BOOLEAN, pushed \in BOOLEAN :
          LET p == [module_name |-> wiz.module_name,
                    module_type |-> wiz.module_type,
                    repo_options |-> wiz.repo_options,
                    template_url |-> wiz.template_url,
                    shows_in_workspace |-> None]
              r == create(dir, p, env.gh, cloned, accepted, pushed)
          IN /\ target_dir' = r.target_dir
             /\ dir' = r.dir
             /\ params' = r.params
             /\ remote' = r.remote
             /\ last' = Call("create", r.status, dir, p)
             /\ outcome' = IF r.status = "ok" THEN "created" ELSE "create_failed"
             /\ wiz' = [wiz EXCEPT !.create_calls = wiz.create_calls + 1]
             /\ pc' = "done"
             /\ UNCHANGED <<name, base, tmpl, prefilled, env, prompts>>

NextWizard ==
    \/ WizardStart \/ AskName \/ AskType \/ ConfirmCore \/ PickTemplate
    \/ AskCreateRepo \/ ContactApi \/ AskOwner \/ AskVisibility \/ Create

SpecWizard == InitWizard /\ [][NextWizard]_vars

\* C1 as stated: after a creation of an "mcp" module that ran to completion with
\* no template and no repository, the module directory holds the manifest, the
\* README, the subtype variant of the package marker, refresh.py and
\* <module_name>.py.
McpCreationGeneratesSubtypeFiles ==
    (/\ outcome = "created"
     /\ last.arg.module_type = "mcp"
     /\ last.arg.template_url = None
     /\ last.arg.repo_options = None)
    => /\ {InitYaml, ReadmeMd, InitPy, RefreshPy, ServerPath(last.arg.module_name)}
              \subseteq DOMAIN dir
       /\ dir[InitPy] = Render(MCP_INIT_TEMPLATE, [module_name |-> last.arg.module_name])

\* C3 as stated: a run in which the hosting API failed during the
\* repository-options stage, and which the user did not cancel, ends with the
\* module scaffolded: the directory holds its manifest and placeholder files.
ApiFailureStillScaffolds ==
    (/\ pc = "done"
     /\ wiz.api_failure # "none"
     /\ wiz.cancelled_at = ""
     /\ wiz.template_url = None)
    => /\ wiz.create_calls = 1
       /\ {InitYaml, InitPy, ReadmeMd} \subseteq DOMAIN dir

\* the last element of a non-empty sequence
Last(seq) == seq[Len(seq)]

\* C8: once a prompt was interrupted, the wizard has returned ("cancelled"), the
\* interrupted prompt is the last one issued, create was never invoked, and no
\* directory, file or remote repository exists.
InterruptAbortsWizard ==
    wiz.cancelled_at # "" =>
        /\ pc = "done"
        /\ outcome = "cancelled"
        /\ Last(prompts) = wiz.cancelled_at
        /\ wiz.create_calls = 0
        /\ target_dir = None
        /\ dir = NoFiles
        /\ remote = None

\* the visibility prompt, the last of the wizard, was interrupted after the
\* owner prompt was answered
InterruptWitness ==
    /\ wiz.cancelled_at = "visibility"
    /\ pc = "done"
    /\ Len(prompts) >= 2
    /\ prompts[Len(prompts) - 1] = "owner"

\* the prompts of the stages that follow the type and its confirmation
LaterPrompts == {"template", "create_repo", "owner", "visibility"}

\* C11: once the wizard has left the confirmation of a "core" (chosen at the
\* prompt or pre-filled), the confirmation prompt was issued, and before every
\* prompt of a later stage; unless the answer was the affirmative one the wizard
\* has ended with the confirmation as its last prompt, with no template chosen,
\* no repository options collected, create never invoked and nothing made.
CoreNeedsConfirmation ==
    (wiz.module_type = "core" /\ pc # "confirm") =>
        /\ \E i \in 1..Len(prompts) :
              /\ prompts[i] = "confirm"
              /\ \A j \in 1..Len(prompts) : prompts[j] \in LaterPrompts => j > i
        /\ wiz.confirm # "Yes, I understand" =>
              /\ pc = "done"
              /\ Last(prompts) = "confirm"
              /\ wiz.template_url = None
              /\ wiz.repo_options = None
              /\ wiz.create_calls = 0
              /\ target_dir = None
              /\ dir = NoFiles
              /\ remote = None

\* a pre-filled "core" was confirmed and the module was created
CoreConfirmedWitness ==
    /\ prefilled.module_type = Some("core")
    /\ wiz.confirm = "Yes, I understand"
    /\ outcome = "created"
    /\ last.arg.module_type = "core"

\* a "core" chosen at the prompt was declined and the wizard ended there
CoreDeclinedWitness ==
    /\ prefilled.module_type = None
    /\ wiz.module_type = "core"
    /\ wiz.confirm = "No, go back"
    /\ outcome = "core_declined"

(***************************************************************************)
(* SpecBase: _derive_module_base applied to every bounded name             *)
(***************************************************************************)
InitBase ==
    /\ name \in Strings(MaxLen)
    /\ base = Unset
    /\ target_dir = None
    /\ dir = NoFiles
    /\ params = None
    /\ tmpl = {}
    /\ last = NoOp
    /\ WizardIdle

DeriveBase ==
    /\ base = Unset
    /\ base' = derive_module_base(name)
    /\ UNCHANGED <<name, target_dir, dir, params, tmpl, last, wizvars>>

NextBase == DeriveBase

SpecBase == InitBase /\ [][NextBase]_vars

\* C10: for a name ending in "_mcp" the result is the last underscore-delimited
\* segment of the name without that suffix (the whole remainder when it has one
\* segment): it holds no underscore, it ends the remainder, and it is either the
\* whole remainder or preceded there by an underscore. For any other name the
\* result is the name itself.
BaseIsLastSegment ==
    base # Unset =>
        IF endswith(name, McpSuffix)
        THEN LET rest == SubSeq(name, 1, Len(name) - Len(McpSuffix))
                 k == Len(rest) - Len(base)
             IN /\ \A i \in 1..Len(base) : base[i] # "_"
                /\ k >= 0
                /\ SubSeq(rest, k + 1, Len(rest)) = base
                /\ k > 0 => rest[k] = "_"
        ELSE base = name

\* a suffixed name with several segments has been reduced to its last segment
BaseWitness ==
    /\ name = <<"a", "_", "c", "_", "m", "c", "p">>
    /\ base = <<"c">>

=============================================================================
